---------------------------- MODULE Spec2Model ----------------------------
(***************************************************************************)
(* StreatMart: order placement, order status machine, reviews, catalog     *)
(* changes, order reads and the vendor's checkout.                         *)
(*                                                                         *)
(* The server is an Express application on top of MongoDB (mongoose).      *)
(* Every request handler is an async function: it runs without             *)
(* interruption between two awaits, and every await of a store call is a   *)
(* point where other requests may run.  Each action below is one such      *)
(* uninterrupted piece of a handler: the store call the handler was        *)
(* waiting for, followed by the code up to the next await.                 *)
(***************************************************************************)
EXTENDS Integers, Sequences, FiniteSets, TLC

\* ------------------------------------------------------------------ bounds
MaxRequests == 2      \* requests of one kind that may be in flight together
MaxCart     == 2      \* lines in one placement request
MaxStock    == 2      \* initial stock of a material
MaxQty      == 2      \* largest quantity a cart line asks for

\* --------------------------------------------------------------- constants
Slots == 1..MaxRequests

Vendors   == {"V1", "V2"}
Suppliers == {"S1", "S2"}
Users     == Vendors \cup Suppliers

\* User.role, resolved by authenticate() from the caller's token.
role(u) == IF u \in Vendors THEN "vendor" ELSE "supplier"

\* Catalog ids: M1 and M2 belong to S1, M3 to S2; M9 is an id of no material.
MaterialIds == {"M1", "M2", "M3"}
NoMaterial  == "M9"

\* Values a client can send as supplierId: a user id, nothing at all
\* (falsy), or a string that is no ObjectId.
NoId  == ""
BadId == "bad"

None == 0   \* an unset Date field / no response yet

VARIABLES
  materials,  \* Material collection: id -> document
  orders,     \* Order collection, in insertion order; the index is the _id
  reviews,    \* Review collection, in insertion order
  users,      \* User collection: supplier id -> [rating, totalRatings]
  place,      \* POST /api/orders/place requests
  trans,      \* PATCH /api/orders/:orderId/status requests
  revs,       \* POST /api/reviews requests
  mats,       \* PUT and DELETE /api/materials/:id requests
  gets,       \* GET /api/orders/:orderId requests
  client      \* the vendor's Materials page: cart and checkout

vars == <<materials, orders, reviews, users, place, trans, revs, mats, gets,
          client>>

\* ------------------------------------------------------------- helpers
SeqSum(s) ==
  LET RECURSIVE go(_)
      go(k) == IF k = 0 THEN 0 ELSE s[k] + go(k - 1)
  IN go(Len(s))

\* Total quantity of material m over a list of lines / order items.
QtyOf(items, m) ==
  SeqSum([k \in 1..Len(items) |->
            IF items[k].materialId = m THEN items[k].quantity ELSE 0])

\* A value mongoose can cast to an ObjectId.
IsObjectId(x) == x \in Users

Started(pool) == {r \in DOMAIN pool : pool[r].pc # "idle"}
InFlight(pool) == {r \in DOMAIN pool : pool[r].pc \notin {"idle", "done"}}

\* Requests received so far, and requests being handled now (a slot takes
\* one request).
NumStarted == Cardinality(Started(place)) + Cardinality(Started(trans))
              + Cardinality(Started(revs)) + Cardinality(Started(mats))
              + Cardinality(Started(gets))
NumInFlight == Cardinality(InFlight(place)) + Cardinality(InFlight(trans))
               + Cardinality(InFlight(revs)) + Cardinality(InFlight(mats))
               + Cardinality(InFlight(gets))

Response(code, text) == [status |-> code, message |-> text]
NoResponse == Response(None, "")

\* middleware requireRole(roles): lets the request through when the
\* authenticated user's role is one of roles, answers 403 otherwise.
requireRole(roles, u) == role(u) \in roles


\* ------------------------------------------------------------ the catalog
\* Documents of the Material collection (schema: models/Material.js).  The
\* schema types stock as Number: the stored value is stock + stockTenths/10,
\* stock its whole part and stockTenths (0..9) its fraction.
Material(s, n, p, st, av) ==
  [supplierId |-> s, name |-> n, unitPrice |-> p, unit |-> "kg",
   stock |-> st, stockTenths |-> 0, isAvailable |-> av]

\* Material.findById(id): the document, or null when there is none.
HasMaterial(id) == id \in DOMAIN materials

\* Stock every material starts with: M1 and M3 fully stocked, M2 one short.
InitStock(m) == IF m = "M2" THEN MaxStock - 1 ELSE MaxStock

\* The catalog the runs start from: M1 and M2 listed by S1, M3 delisted by S2.
InitMaterials ==
  [m \in MaterialIds |->
     CASE m = "M1" -> Material("S1", "rice", 20, InitStock(m), TRUE)
       [] m = "M2" -> Material("S1", "oil", 50, InitStock(m), TRUE)
       [] m = "M3" -> Material("S2", "salt", 30, InitStock(m), FALSE)]

InitUsers == [s \in Suppliers |-> [rating |-> 0, totalRatings |-> 0]]

\* ------------------------------------------------- POST /api/orders/place
Quantities == 0..MaxQty
\* Cart lines: any quantity of the two listed materials, and one line each
\* for the delisted material and for the id of no material.
Lines ==
  [materialId : {"M1", "M2"}, quantity : Quantities]
    \cup [materialId : {"M3", NoMaterial}, quantity : {1}]
Carts == UNION {[1..n -> Lines] : n \in 0..MaxCart}

\* req.body of a placement.
PlaceBodies ==
  [supplierId : {"S1", NoId}, items : Carts,
   deliveryAddress : {"", "Default delivery address"}]

PlaceIdle ==
  [pc |-> "idle", user |-> "", supplierId |-> NoId, items |-> <<>>,
   deliveryAddress |-> "", i |-> 0, subtotal |-> 0, orderItems |-> <<>>,
   stock |-> 0, stockTenths |-> 0, res |-> NoResponse,
   \* the store as it was when the request arrived (history, not program state)
   stock0 |-> <<>>, orders0 |-> 0, quiet |-> FALSE, n0 |-> 0]

\* The handler has answered: only the response is left of the request.
PlaceDone(q, code, text) ==
  [PlaceIdle EXCEPT !.pc = "done", !.res = Response(code, text)]

deliveryFee == 50

\* Mutant of NewOrder: the delivery fee is left out of the total.
NewOrderWithoutFee(q) ==
  [vendorId |-> q.user, supplierId |-> q.supplierId, items |-> q.orderItems,
   subtotal |-> q.subtotal, deliveryFee |-> deliveryFee,
   totalAmount |-> q.subtotal, status |-> "pending",
   deliveryAddress |-> q.deliveryAddress, supplierNotes |-> "",
   estimatedDeliveryTime |-> None, actualDeliveryTime |-> None,
   paymentStatus |-> "pending"]

\* The document `new Order({...})` builds; status, paymentStatus and the
\* optional fields take the schema's defaults.
NewOrder(q) ==
  [vendorId |-> q.user, supplierId |-> q.supplierId, items |-> q.orderItems,
   subtotal |-> q.subtotal, deliveryFee |-> deliveryFee,
   totalAmount |-> q.subtotal + deliveryFee, status |-> "pending",
   deliveryAddress |-> q.deliveryAddress, supplierNotes |-> "",
   estimatedDeliveryTime |-> None, actualDeliveryTime |-> None,
   paymentStatus |-> "pending"]

\* Schema validation run by order.save() (models/Order.js).
OrderValid(o) ==
  /\ IsObjectId(o.vendorId)
  /\ IsObjectId(o.supplierId)
  /\ \A k \in 1..Len(o.items) : o.items[k].quantity >= 1 /\ o.items[k].unitPrice >= 0
  /\ o.subtotal >= 0
  /\ o.deliveryFee >= 0
  /\ o.totalAmount >= 0
  /\ o.deliveryAddress # ""

\* The handler up to its first await, for user u and body b: role gate and
\* required fields.
Received(u, b) ==
  LET q == [PlaceIdle EXCEPT
              !.user = u, !.supplierId = b.supplierId, !.items = b.items,
              !.deliveryAddress = b.deliveryAddress,
              !.stock0 = [m \in DOMAIN materials |-> materials[m].stock],
              !.orders0 = Len(orders),
              !.quiet = (NumInFlight = 0), !.n0 = NumStarted]
  IN IF ~requireRole({"vendor"}, u)
       THEN PlaceDone(q, 403, "Access denied")
     ELSE IF b.supplierId = NoId \/ Len(b.items) = 0 \/ b.deliveryAddress = ""
       THEN PlaceDone(q, 400, "Required fields are missing")
     ELSE [q EXCEPT !.pc = "find", !.i = 1]

PlaceStart(r, u, b) ==
  /\ place[r].pc = "idle"
  /\ \A r2 \in DOMAIN place : r2 < r => place[r2].pc # "idle"   \* slots fill in order
  /\ place' = [place EXCEPT ![r] = Received(u, b)]
  /\ UNCHANGED <<materials, orders, reviews, users, trans, revs, mats, gets,
                 client>>

\* Mutant of PlaceFind: a delisted material passes the availability check.
PlaceFindIgnoringAvailability(r) ==
  LET q == place[r]
      item == q.items[q.i]
      id == item.materialId
  IN /\ q.pc = "find"
     /\ place' = [place EXCEPT ![r] =
          IF ~HasMaterial(id)
            THEN PlaceDone(q, 400, "Material is not available")
          ELSE IF materials[id].stock < item.quantity
            THEN PlaceDone(q, 400, "Insufficient stock")
          ELSE [q EXCEPT
                  !.pc = "saveMaterial",
                  !.subtotal = @ + materials[id].unitPrice * item.quantity,
                  !.orderItems = Append(@,
                     [materialId |-> id, name |-> materials[id].name,
                      quantity |-> item.quantity,
                      unitPrice |-> materials[id].unitPrice,
                      unit |-> materials[id].unit]),
                  !.stock = materials[id].stock - item.quantity,
                  !.stockTenths = materials[id].stockTenths]]
     /\ UNCHANGED <<materials, orders, reviews, users, trans, revs, mats,
                    gets, client>>

\* `await Material.findById(item.materialId)` for line i, the checks on it,
\* the line's contribution to the order, and `material.stock -= quantity`
\* on the fetched document (not yet saved).
PlaceFind(r) ==
  LET q == place[r]
      item == q.items[q.i]
      id == item.materialId
  IN /\ q.pc = "find"
     /\ place' = [place EXCEPT ![r] =
          IF ~HasMaterial(id) \/ ~materials[id].isAvailable
            THEN PlaceDone(q, 400, "Material is not available")
          ELSE IF materials[id].stock < item.quantity
            THEN PlaceDone(q, 400, "Insufficient stock")
          ELSE [q EXCEPT
                  !.pc = "saveMaterial",
                  !.subtotal = @ + materials[id].unitPrice * item.quantity,
                  !.orderItems = Append(@,
                     [materialId |-> id, name |-> materials[id].name,
                      quantity |-> item.quantity,
                      unitPrice |-> materials[id].unitPrice,
                      unit |-> materials[id].unit]),
                  !.stock = materials[id].stock - item.quantity,
                  !.stockTenths = materials[id].stockTenths]]
     /\ UNCHANGED <<materials, orders, reviews, users, trans, revs, mats,
                    gets, client>>

\* Mutant of PlaceSaveMaterial: the decremented stock is never saved.
PlaceSaveMaterialUnsaved(r) ==
  LET q == place[r]
  IN /\ q.pc = "saveMaterial"
     /\ place' = [place EXCEPT ![r] =
          IF q.i < Len(q.items)
            THEN [q EXCEPT !.pc = "find", !.i = @ + 1]
            ELSE [q EXCEPT !.pc = "saveOrder"]]
     /\ UNCHANGED <<materials, orders, reviews, users, trans, revs, mats,
                    gets, client>>

\* `await material.save()`: mongoose writes the modified path, stock, with
\* the value computed from the document as it was fetched; after
\* `stock -= 0` the path is not modified and nothing is written.  Then the
\* loop goes on to the next line, or the handler builds the order.
PlaceSaveMaterial(r) ==
  LET q == place[r]
      id == q.items[q.i].materialId
      modified == q.items[q.i].quantity # 0
  IN /\ q.pc = "saveMaterial"
     /\ IF HasMaterial(id) /\ (modified => q.stock >= 0)
          THEN /\ materials' =
                    IF modified
                      THEN [materials EXCEPT ![id].stock = q.stock,
                                             ![id].stockTenths = q.stockTenths]
                      ELSE materials
               /\ place' = [place EXCEPT ![r] =
                    IF q.i < Len(q.items)
                      THEN [q EXCEPT !.pc = "find", !.i = @ + 1]
                      ELSE [q EXCEPT !.pc = "saveOrder"]]
          ELSE \* the document is gone (save() finds no document to update or
               \* to confirm), or the new stock fails min: 0; save() throws
               /\ place' = [place EXCEPT ![r] =
                    PlaceDone(q, 500, "Server error placing order")]
               /\ UNCHANGED materials
     /\ UNCHANGED <<orders, reviews, users, trans, revs, mats, gets, client>>

\* `await order.save()`: the order is stored, or validation throws and the
\* catch answers 500.
PlaceSaveOrder(r) ==
  LET q == place[r]
      order == NewOrder(q)
  IN /\ q.pc = "saveOrder"
     /\ IF OrderValid(order)
          THEN /\ orders' = Append(orders, order)
               /\ place' = [place EXCEPT ![r].pc = "populate"]
          ELSE /\ place' = [place EXCEPT ![r] =
                    PlaceDone(q, 500, "Server error placing order")]
               /\ UNCHANGED orders
     /\ UNCHANGED <<materials, reviews, users, trans, revs, mats, gets, client>>

\* `await order.populate(...)` and the response.
PlacePopulate(r) ==
  /\ place[r].pc = "populate"
  /\ place' = [place EXCEPT ![r] =
       PlaceDone(place[r], 201, "Order placed successfully")]
  /\ UNCHANGED <<materials, orders, reviews, users, trans, revs, mats, gets,
                 client>>


\* ------------------------------------- PATCH /api/orders/:orderId/status
Statuses == {"pending", "confirmed", "out_for_delivery", "delivered", "cancelled"}

\* Mutant of validTransitions: a delivered order can still be cancelled.
validTransitionsLoose(st) ==
  CASE st = "pending"          -> {"confirmed", "cancelled"}
    [] st = "confirmed"        -> {"out_for_delivery", "cancelled"}
    [] st = "out_for_delivery" -> {"delivered"}
    [] st = "delivered"        -> {"cancelled"}
    [] st = "cancelled"        -> {}

validTransitions(st) ==
  CASE st = "pending"          -> {"confirmed", "cancelled"}
    [] st = "confirmed"        -> {"out_for_delivery", "cancelled"}
    [] st = "out_for_delivery" -> {"delivered"}
    [] st = "delivered"        -> {}
    [] st = "cancelled"        -> {}

\* An id of no order (0 stands for no id at all).
NoOrder == 9
HasOrder(id) == id \in 1..Len(orders)

\* req.body of a status request: a status of the enum, none, or a word that
\* is no status; with or without notes and an estimated delivery time.
TransBodies ==
  [status : Statuses \cup {"", "shipped"},
   supplierNotes : {""}, estimatedDeliveryTime : {None}]
  \cup
  [status : Statuses \cup {"", "shipped"},
   supplierNotes : {"on the way"}, estimatedDeliveryTime : {1}]

TransIdle ==
  [pc |-> "idle", user |-> "", orderId |-> 0, status |-> "",
   supplierNotes |-> "", estimatedDeliveryTime |-> None, res |-> NoResponse]

TransDone(code, text) ==
  [TransIdle EXCEPT !.pc = "done", !.res = Response(code, text)]

\* Mutant of FindOwnOrder: the query does not filter on supplierId.
FindAnyOrder(id, u) == HasOrder(id)

\* Order.findOne({_id: orderId, supplierId: req.user._id}) finds a document.
FindOwnOrder(id, u) == HasOrder(id) /\ orders[id].supplierId = u

\* The handler up to its first await: role gate and `if (!status)`.
TransStart(r, u, id, b) ==
  /\ trans[r].pc = "idle"
  /\ \A r2 \in DOMAIN trans : r2 < r => trans[r2].pc # "idle"   \* slots fill in order
  /\ trans' = [trans EXCEPT ![r] =
       IF ~requireRole({"supplier"}, u)
         THEN TransDone(403, "Access denied")
       ELSE IF b.status = ""
         THEN TransDone(400, "Status is required")
       ELSE [TransIdle EXCEPT
               !.pc = "findOne", !.user = u, !.orderId = id,
               !.status = b.status, !.supplierNotes = b.supplierNotes,
               !.estimatedDeliveryTime = b.estimatedDeliveryTime]]
  /\ UNCHANGED <<materials, orders, reviews, users, place, revs, mats, gets,
                 client>>

\* Mutant of TransFind: the notes of the request are written to the stored
\* order as soon as the order is found, before the transition is checked.
TransFindNotesFirst(r) ==
  LET q == trans[r]
  IN /\ q.pc = "findOne"
     /\ trans' = [trans EXCEPT ![r] =
          IF ~FindOwnOrder(q.orderId, q.user)
            THEN TransDone(404, "Order not found or unauthorized")
          ELSE IF q.status \notin validTransitions(orders[q.orderId].status)
            THEN TransDone(400, "Cannot transition")
          ELSE [q EXCEPT !.pc = "save"]]
     /\ orders' =
          IF FindOwnOrder(q.orderId, q.user) /\ q.supplierNotes # ""
            THEN [orders EXCEPT ![q.orderId].supplierNotes = q.supplierNotes]
            ELSE orders
     /\ UNCHANGED <<materials, reviews, users, place, revs, mats, gets, client>>

\* `await Order.findOne(...)`, the ownership and transition checks, and the
\* assignments to the fetched document (not yet saved).
TransFind(r) ==
  LET q == trans[r]
  IN /\ q.pc = "findOne"
     /\ trans' = [trans EXCEPT ![r] =
          IF ~FindOwnOrder(q.orderId, q.user)
            THEN TransDone(404, "Order not found or unauthorized")
          ELSE IF q.status \notin validTransitions(orders[q.orderId].status)
            THEN TransDone(400, "Cannot transition")
          ELSE [q EXCEPT !.pc = "save"]]
     /\ UNCHANGED <<materials, orders, reviews, users, place, revs, mats,
                    gets, client>>

\* Mutant of Transitioned: a cancellation also refunds, zeroing the total.
TransitionedRefund(o, q) ==
  [o EXCEPT
     !.status = q.status,
     !.supplierNotes = IF q.supplierNotes # "" THEN q.supplierNotes ELSE @,
     !.estimatedDeliveryTime =
        IF q.estimatedDeliveryTime # None THEN q.estimatedDeliveryTime ELSE @,
     !.actualDeliveryTime = IF q.status = "delivered" THEN 1 ELSE @,
     !.totalAmount = IF q.status = "cancelled" THEN 0 ELSE @]

\* The fetched document after lines 173-176, written over the stored one:
\* save() sets the modified paths and no others.
Transitioned(o, q) ==
  [o EXCEPT
     !.status = q.status,
     !.supplierNotes = IF q.supplierNotes # "" THEN q.supplierNotes ELSE @,
     !.estimatedDeliveryTime =
        IF q.estimatedDeliveryTime # None THEN q.estimatedDeliveryTime ELSE @,
     !.actualDeliveryTime = IF q.status = "delivered" THEN 1 ELSE @]

\* Mutant of TransSave: a cancellation returns the order's quantities to the
\* catalog.
TransSaveRestock(r) ==
  LET q == trans[r]
      o == orders[q.orderId]
  IN /\ q.pc = "save"
     /\ orders' = [orders EXCEPT ![q.orderId] = Transitioned(@, q)]
     /\ materials' =
          [m \in DOMAIN materials |->
             IF q.status = "cancelled"
               THEN [materials[m] EXCEPT !.stock = @ + QtyOf(o.items, m)]
               ELSE materials[m]]
     /\ trans' = [trans EXCEPT ![r].pc = "populate"]
     /\ UNCHANGED <<reviews, users, place, revs, mats, gets, client>>

\* `await order.save()`: the modified paths are written.
TransSave(r) ==
  LET q == trans[r]
  IN /\ q.pc = "save"
     /\ orders' = [orders EXCEPT ![q.orderId] = Transitioned(@, q)]
     /\ trans' = [trans EXCEPT ![r].pc = "populate"]
     /\ UNCHANGED <<materials, reviews, users, place, revs, mats, gets, client>>

\* `await order.populate(...)` and the response.
TransPopulate(r) ==
  /\ trans[r].pc = "populate"
  /\ trans' = [trans EXCEPT ![r] =
       TransDone(200, "Order status updated successfully")]
  /\ UNCHANGED <<materials, orders, reviews, users, place, revs, mats, gets,
                 client>>

\* ------------------------------------------------------ POST /api/reviews
\* Ratings a client sends: none (falsy), one inside and one above the range.
Ratings == {0, 5, 6}

RevBodies ==
  [orderId : {0, 1, 2, NoOrder}, supplierId : {"S1", "S2", NoId}, rating : Ratings]

RevIdle ==
  [pc |-> "idle", user |-> "", orderId |-> 0, supplierId |-> NoId,
   rating |-> 0, res |-> NoResponse,
   \* updateSupplierRating threw in this request (history, not program state)
   ratingError |-> FALSE]

RevDone(code, text) ==
  [RevIdle EXCEPT !.pc = "done", !.res = Response(code, text)]

\* Mutant of FindDeliveredOrder: the query does not filter on status.
FindVendorOrder(id, u) == HasOrder(id) /\ orders[id].vendorId = u

\* Order.findOne({_id: orderId, vendorId: req.user._id, status: 'delivered'})
\* finds a document.
FindDeliveredOrder(id, u) ==
  HasOrder(id) /\ orders[id].vendorId = u /\ orders[id].status = "delivered"

\* Review.findOne({orderId}) finds a document.
FindReview(id) == \E k \in 1..Len(reviews) : reviews[k].orderId = id

\* Schema validation run by review.save() (reviewSchema).
ReviewValid(v) ==
  /\ IsObjectId(v.vendorId)
  /\ IsObjectId(v.supplierId)
  /\ v.rating >= 1 /\ v.rating <= 5

\* Mutant of UniqueIndexAllows: the collection has no unique index.
NoUniqueIndex(v) == TRUE

\* The unique index on orderId refuses a second review of an order.
UniqueIndexAllows(v) == ~FindReview(v.orderId)

\* The routes file imports express, Review, Order, User and the auth
\* middleware; `mongoose` is not among them.
MongooseInScope == FALSE

\* Math.round(averageRating * 10) / 10, in tenths: the mean of ratings whose
\* sum is total over n reviews.
RoundedMean10(total, n) == (20 * total + n) \div (2 * n)

\* updateSupplierRating(supplierId): the User collection afterwards.  The
\* aggregate's $match evaluates mongoose.Types.ObjectId(supplierId); with
\* `mongoose` unbound that throws a ReferenceError, which the function's own
\* catch logs and drops.
updateSupplierRatingThrows == ~MongooseInScope

updateSupplierRating(s) ==
  LET mine == SelectSeq(reviews', LAMBDA v : v.supplierId = s)
      total == SeqSum([k \in 1..Len(mine) |-> mine[k].rating])
  IN IF ~MongooseInScope THEN users
     ELSE IF Len(mine) > 0 /\ s \in DOMAIN users
       THEN [users EXCEPT ![s] =
               [rating |-> RoundedMean10(total, Len(mine)),
                totalRatings |-> Len(mine)]]
     ELSE users

\* The handler up to its first await: role gate and required fields.
RevStart(r, u, b) ==
  /\ revs[r].pc = "idle"
  /\ \A r2 \in DOMAIN revs : r2 < r => revs[r2].pc # "idle"   \* slots fill in order
  /\ revs' = [revs EXCEPT ![r] =
       IF ~requireRole({"vendor"}, u)
         THEN RevDone(403, "Access denied")
       ELSE IF b.orderId = 0 \/ b.supplierId = NoId \/ b.rating = 0
         THEN RevDone(400, "Order ID, supplier ID, and rating are required")
       ELSE [RevIdle EXCEPT
               !.pc = "findOrder", !.user = u, !.orderId = b.orderId,
               !.supplierId = b.supplierId, !.rating = b.rating]]
  /\ UNCHANGED <<materials, orders, reviews, users, place, trans, mats, gets,
                 client>>

\* `await Order.findOne(...)`: the order must be the vendor's and delivered.
RevFindOrder(r) ==
  LET q == revs[r]
  IN /\ q.pc = "findOrder"
     /\ revs' = [revs EXCEPT ![r] =
          IF ~FindDeliveredOrder(q.orderId, q.user)
            THEN RevDone(400, "Order not found, unauthorized, or not delivered yet")
            ELSE [q EXCEPT !.pc = "findReview"]]
     /\ UNCHANGED <<materials, orders, reviews, users, place, trans, mats,
                    gets, client>>

\* `await Review.findOne({ orderId })`.
RevFindReview(r) ==
  LET q == revs[r]
  IN /\ q.pc = "findReview"
     /\ revs' = [revs EXCEPT ![r] =
          IF FindReview(q.orderId)
            THEN RevDone(400, "Review already exists for this order")
            ELSE [q EXCEPT !.pc = "save"]]
     /\ UNCHANGED <<materials, orders, reviews, users, place, trans, mats,
                    gets, client>>

\* Mutant of RevSave: an error thrown by review.save() is swallowed and the
\* handler never answers.
RevSaveSilent(r) ==
  LET q == revs[r]
      review == [vendorId |-> q.user, supplierId |-> q.supplierId,
                 orderId |-> q.orderId, rating |-> q.rating]
  IN /\ q.pc = "save"
     /\ IF ReviewValid(review) /\ UniqueIndexAllows(review)
          THEN /\ reviews' = Append(reviews, review)
               /\ users' = updateSupplierRating(q.supplierId)
               /\ revs' = [revs EXCEPT ![r].pc = "populate",
                                        ![r].ratingError = updateSupplierRatingThrows]
          ELSE /\ revs' = [revs EXCEPT ![r].pc = "dropped"]
               /\ UNCHANGED <<reviews, users>>
     /\ UNCHANGED <<materials, orders, place, trans, mats, gets, client>>

NewReview(q) ==
  [vendorId |-> q.user, supplierId |-> q.supplierId, orderId |-> q.orderId,
   rating |-> q.rating]

\* `await review.save()`, then `await updateSupplierRating(supplierId)`,
\* which makes no store call before it returns.
RevSave(r) ==
  LET q == revs[r]
      review == NewReview(q)
  IN /\ q.pc = "save"
     /\ IF ReviewValid(review) /\ UniqueIndexAllows(review)
          THEN /\ reviews' = Append(reviews, review)
               /\ users' = updateSupplierRating(q.supplierId)
               /\ revs' = [revs EXCEPT ![r].pc = "populate",
                                        ![r].ratingError = updateSupplierRatingThrows]
          ELSE \* ValidationError, or E11000 duplicate key: caught at line 60
               /\ revs' = [revs EXCEPT ![r] =
                    RevDone(500, "Server error adding review")]
               /\ UNCHANGED <<reviews, users>>
     /\ UNCHANGED <<materials, orders, place, trans, mats, gets, client>>

\* `await review.populate(...)` and the response.
RevPopulate(r) ==
  /\ revs[r].pc = "populate"
  /\ revs' = [revs EXCEPT ![r] = RevDone(201, "Review added successfully")]
  /\ UNCHANGED <<materials, orders, reviews, users, place, trans, mats, gets,
                 client>>

\* ------------------------------------- PUT and DELETE /api/materials/:id
\* A stock value in a request body: whole part and tenths (1.5 is 1 and 5).
StockUpdate(whole, tenths) == [stock |-> whole, stockTenths |-> tenths]

MatIdle ==
  [pc |-> "idle", kind |-> "", user |-> "", id |-> "", updates |-> <<>>,
   res |-> NoResponse]

MatDone(code, text) ==
  [MatIdle EXCEPT !.pc = "done", !.res = Response(code, text)]

\* Material.findOne({_id: req.params.id, supplierId: req.user._id}) finds a
\* document (findOneAndDelete uses the same filter).
FindOwnMaterial(id, u) == HasMaterial(id) /\ materials[id].supplierId = u

\* The fetched document after `material[key] = updates[key]` for every key
\* of the body (keys that are no schema path are dropped by mongoose).
Updated(doc, updates) ==
  [k \in DOMAIN doc |-> IF k \in DOMAIN updates THEN updates[k] ELSE doc[k]]

\* The paths the assignments have marked modified: those whose value
\* changed.  The number stock is one path, kept here as whole part and
\* tenths: both are written when either differs.
Modified(doc, updates) ==
  LET changed == {k \in DOMAIN doc \cap DOMAIN updates : updates[k] # doc[k]}
  IN IF changed \cap {"stock", "stockTenths"} # {}
       THEN changed \cup ({"stock", "stockTenths"} \cap DOMAIN updates)
       ELSE changed

\* Schema validation run by material.save() (materialSchema).
MaterialValid(doc) ==
  /\ IsObjectId(doc.supplierId)
  /\ doc.name # ""
  /\ doc.unitPrice >= 0
  /\ doc.stock >= 0

\* PUT up to its first await: the role gate.
MatUpdateStart(r, u, id, updates) ==
  /\ mats[r].pc = "idle"
  /\ \A r2 \in DOMAIN mats : r2 < r => mats[r2].pc # "idle"   \* slots fill in order
  /\ mats' = [mats EXCEPT ![r] =
       IF ~requireRole({"supplier"}, u)
         THEN MatDone(403, "Access denied")
         ELSE [MatIdle EXCEPT !.pc = "findOne", !.kind = "update", !.user = u,
                              !.id = id, !.updates = updates]]
  /\ UNCHANGED <<materials, orders, reviews, users, place, trans, revs, gets,
                 client>>

\* `await Material.findOne(...)` and the assignments of the body's keys to
\* the fetched document (not yet saved): the request keeps the modified
\* paths with their new values.
MatUpdateFind(r) ==
  LET q == mats[r]
  IN /\ q.pc = "findOne"
     /\ mats' = [mats EXCEPT ![r] =
          IF ~FindOwnMaterial(q.id, q.user)
            THEN MatDone(404, "Material not found or unauthorized")
            ELSE LET doc == materials[q.id]
                 IN [q EXCEPT
                       !.pc = IF MaterialValid(Updated(doc, q.updates))
                                THEN "save" ELSE "invalid",
                       !.updates = [k \in Modified(doc, q.updates) |-> q.updates[k]]]]
     /\ UNCHANGED <<materials, orders, reviews, users, place, trans, revs,
                    gets, client>>

\* `await material.save()`: validation fails, or the document is gone, and
\* the catch answers 500; otherwise the modified paths are written.
MatUpdateSave(r) ==
  LET q == mats[r]
  IN /\ q.pc \in {"save", "invalid"}
     /\ IF q.pc = "save" /\ HasMaterial(q.id)
          THEN /\ materials' = [materials EXCEPT ![q.id] = Updated(@, q.updates)]
               /\ mats' = [mats EXCEPT ![r].pc = "populate"]
          ELSE /\ mats' = [mats EXCEPT ![r] =
                    MatDone(500, "Server error updating material")]
               /\ UNCHANGED materials
     /\ UNCHANGED <<orders, reviews, users, place, trans, revs, gets, client>>

\* `await material.populate(...)` and the response.
MatUpdatePopulate(r) ==
  /\ mats[r].pc = "populate"
  /\ mats' = [mats EXCEPT ![r] = MatDone(200, "Material updated successfully")]
  /\ UNCHANGED <<materials, orders, reviews, users, place, trans, revs, gets,
                 client>>

\* The _id the store gives the next new material.
FreshIds == <<"M4", "M5">>
NextMaterialId == IF FreshIds[1] \notin DOMAIN materials THEN FreshIds[1] ELSE FreshIds[2]

\* req.body of POST /api/materials: name, unitPrice and stock (whole part and
\* tenths); category, unit ("kg") and deliveryRadiusKm are always supplied.
MaterialBody(n, p, whole, tenths) ==
  [name |-> n, unitPrice |-> p, stock |-> whole, stockTenths |-> tenths]

\* POST up to its first await: the role gate, the required fields, and
\* `new Material({supplierId: req.user._id, ...})` with the schema defaults.
MatCreateStart(r, u, b) ==
  /\ mats[r].pc = "idle"
  /\ \A r2 \in DOMAIN mats : r2 < r => mats[r2].pc # "idle"   \* slots fill in order
  /\ mats' = [mats EXCEPT ![r] =
       IF ~requireRole({"supplier"}, u)
         THEN MatDone(403, "Access denied")
       ELSE IF b.name = "" \/ b.unitPrice = 0
         THEN MatDone(400, "Required fields are missing")
       ELSE [MatIdle EXCEPT
               !.pc = "insert", !.kind = "create", !.user = u,
               !.updates = [Material(u, b.name, b.unitPrice, b.stock, TRUE)
                              EXCEPT !.stockTenths = b.stockTenths]]]
  /\ UNCHANGED <<materials, orders, reviews, users, place, trans, revs, gets,
                 client>>

\* `await material.save()` of POST: validation throws and the catch answers
\* 500, or the document is inserted under a new _id.
MatCreateSave(r) ==
  LET q == mats[r]
      id == NextMaterialId
  IN /\ q.pc = "insert"
     /\ id \notin DOMAIN materials
     /\ IF MaterialValid(q.updates)
          THEN /\ materials' = [m \in DOMAIN materials \cup {id} |->
                                  IF m = id THEN q.updates ELSE materials[m]]
               /\ mats' = [mats EXCEPT ![r].pc = "populateNew", ![r].id = id]
          ELSE /\ mats' = [mats EXCEPT ![r] =
                    MatDone(500, "Server error adding material")]
               /\ UNCHANGED materials
     /\ UNCHANGED <<orders, reviews, users, place, trans, revs, gets, client>>

\* `await material.populate(...)` of POST and the response.
MatCreatePopulate(r) ==
  /\ mats[r].pc = "populateNew"
  /\ mats' = [mats EXCEPT ![r] = MatDone(201, "Material added successfully")]
  /\ UNCHANGED <<materials, orders, reviews, users, place, trans, revs, gets,
                 client>>

\* DELETE up to its first await: the role gate.
MatDeleteStart(r, u, id) ==
  /\ mats[r].pc = "idle"
  /\ \A r2 \in DOMAIN mats : r2 < r => mats[r2].pc # "idle"   \* slots fill in order
  /\ mats' = [mats EXCEPT ![r] =
       IF ~requireRole({"supplier"}, u)
         THEN MatDone(403, "Access denied")
         ELSE [MatIdle EXCEPT !.pc = "findOneAndDelete", !.kind = "delete",
                              !.user = u, !.id = id]]
  /\ UNCHANGED <<materials, orders, reviews, users, place, trans, revs, gets,
                 client>>

\* `await Material.findOneAndDelete(...)` and the response.
MatDelete(r) ==
  LET q == mats[r]
  IN /\ q.pc = "findOneAndDelete"
     /\ IF FindOwnMaterial(q.id, q.user)
          THEN /\ materials' = [m \in DOMAIN materials \ {q.id} |-> materials[m]]
               /\ mats' = [mats EXCEPT ![r] =
                    MatDone(200, "Material deleted successfully")]
          ELSE /\ mats' = [mats EXCEPT ![r] =
                    MatDone(404, "Material not found or unauthorized")]
               /\ UNCHANGED materials
     /\ UNCHANGED <<orders, reviews, users, place, trans, revs, gets, client>>

\* ---------------------------------------------- GET /api/orders/:orderId
\* body is the order sent back, in a sequence that is empty when none is.
GetIdle ==
  [pc |-> "idle", user |-> "", orderId |-> 0, res |-> NoResponse, body |-> <<>>]

GetDone(code, text, body) ==
  [GetIdle EXCEPT !.pc = "done", !.res = Response(code, text), !.body = body]

\* Mutant of NotParty: the handler sends the order to whoever asks.
NotPartyUnchecked(o, u) == FALSE

\* order.vendorId._id !== req.user._id && order.supplierId._id !== req.user._id
NotParty(o, u) == o.vendorId # u /\ o.supplierId # u

\* The handler up to its first await: authenticate, and no role gate.
GetStart(r, u, id) ==
  /\ gets[r].pc = "idle"
  /\ \A r2 \in DOMAIN gets : r2 < r => gets[r2].pc # "idle"   \* slots fill in order
  /\ gets' = [gets EXCEPT ![r] =
       [GetIdle EXCEPT !.pc = "findById", !.user = u, !.orderId = id]]
  /\ UNCHANGED <<materials, orders, reviews, users, place, trans, revs, mats,
                 client>>

\* `await Order.findById(...).populate(...)`, the party check, the response.
GetFind(r) ==
  LET q == gets[r]
  IN /\ q.pc = "findById"
     /\ gets' = [gets EXCEPT ![r] =
          IF ~HasOrder(q.orderId)
            THEN GetDone(404, "Order not found", <<>>)
          ELSE IF NotParty(orders[q.orderId], q.user)
            THEN GetDone(403, "Unauthorized to view this order", <<>>)
          ELSE GetDone(200, "", <<orders[q.orderId]>>)]
     /\ UNCHANGED <<materials, orders, reviews, users, place, trans, revs,
                    mats, client>>

\* ------------------------------------------- client: the Materials page
\* cart: the items added (of an item the model keeps materialId, quantity and
\* supplierId; name, price and unit are display only); sent: the request
\* bodies of the checkout; toast: the last message shown; checkedOut: the
\* cart as it was at checkout (history, not program state); materials: the
\* page's own copy of the catalog, useState([]) until fetchMaterials sets it.
ClientIdle ==
  [pc |-> "browsing", user |-> "V1", cart |-> <<>>, sent |-> <<>>,
   toast |-> "", checkedOut |-> <<>>, materials |-> <<>>]

\* What GET /api/materials answers with: the available materials.
Fetched == [m \in {id \in DOMAIN materials : materials[id].isAvailable} |->
              materials[m]]

\* The page once fetchMaterials, called when it mounts, has set its materials
\* from a catalog in which every material of the model was available.
PageLoaded ==
  [ClientIdle EXCEPT !.materials =
     [m \in MaterialIds |-> [InitMaterials[m] EXCEPT !.isAvailable = TRUE]]]

\* The message addToCart shows, text being the quantity as JavaScript
\* prints it.
AddedToast(material, text) ==
  "Added " \o text \o " " \o material.unit \o " of " \o material.name
    \o " to cart"

\* addToCart(material, quantity): the cart afterwards.  The material is the
\* page's copy of material m.
addToCart(cart, m, quantity) ==
  IF \E k \in 1..Len(cart) : cart[k].materialId = m
    THEN [k \in 1..Len(cart) |->
            IF cart[k].materialId = m
              THEN [cart[k] EXCEPT !.quantity = @ + quantity]
              ELSE cart[k]]
    ELSE Append(cart, [materialId |-> m, quantity |-> quantity,
                       supplierId |-> client.materials[m].supplierId])

\* Mutant of GroupItems: every line is pushed with quantity 1.
GroupItemsSingle(cart, s) ==
  LET mine == SelectSeq(cart, LAMBDA it : it.supplierId = s)
  IN [k \in 1..Len(mine) |->
        [materialId |-> mine[k].materialId, quantity |-> 1]]

\* The {materialId, quantity} lines pushed for the items of supplier s.
GroupItems(cart, s) ==
  LET mine == SelectSeq(cart, LAMBDA it : it.supplierId = s)
  IN [k \in 1..Len(mine) |->
        [materialId |-> mine[k].materialId, quantity |-> mine[k].quantity]]

\* Mutant of ordersBySupplier: the cart is sent whole, to its first supplier.
ordersUnsplit(cart) ==
  IF Len(cart) = 0 THEN <<>>
  ELSE <<[supplierId |-> cart[1].supplierId,
          items |-> [k \in 1..Len(cart) |->
                       [materialId |-> cart[k].materialId,
                        quantity |-> cart[k].quantity]]]>>

\* cart.reduce(...) of placeOrder: one group per supplier, in the order the
\* suppliers first appear in the cart.
ordersBySupplier(cart) ==
  LET RECURSIVE seen(_)
      seen(k) ==
        IF k = 0 THEN <<>>
        ELSE IF \E j \in 1..(k - 1) : cart[j].supplierId = cart[k].supplierId
          THEN seen(k - 1)
          ELSE Append(seen(k - 1), cart[k].supplierId)
      suppliers == seen(Len(cart))
  IN [g \in 1..Len(suppliers) |->
        [supplierId |-> suppliers[g], items |-> GroupItems(cart, suppliers[g])]]

\* The vendor adds quantity units of a material the page shows to the cart.
AddToCart(m, quantity) ==
  /\ client.pc = "browsing"
  /\ m \in DOMAIN client.materials
  /\ QtyOf(client.cart, m) + quantity <= MaxQty
  /\ client' = [client EXCEPT
       !.cart = addToCart(@, m, quantity),
       !.toast = AddedToast(client.materials[m], ToString(quantity))]
  /\ UNCHANGED <<materials, orders, reviews, users, place, trans, revs, mats, gets>>

\* placeOrder up to `await Promise.all(orderPromises)`: the map sends one
\* POST /api/orders/place per supplier group before anything is awaited, and
\* each handler runs up to its first await without touching the store.
Checkout ==
  LET groups == ordersBySupplier(client.cart)
  IN /\ client.pc = "browsing"
     /\ \A r \in DOMAIN place : place[r].pc = "idle"
     /\ Len(groups) <= Cardinality(DOMAIN place)
     /\ IF Len(client.cart) = 0
          THEN /\ client' = [client EXCEPT !.toast = "Cart is empty"]
               /\ UNCHANGED place
          ELSE /\ client' = [client EXCEPT !.pc = "waiting", !.sent = groups,
                                           !.checkedOut = client.cart]
               /\ place' = [r \in DOMAIN place |->
                    IF r <= Len(groups)
                      THEN Received(client.user,
                             [supplierId |-> groups[r].supplierId,
                              items |-> groups[r].items,
                              deliveryAddress |-> "Default delivery address"])
                      ELSE place[r]]
     /\ UNCHANGED <<materials, orders, reviews, users, trans, revs, mats, gets>>

\* Promise.all settles: it rejects with a failed request's response (the
\* catch shows its message and the cart stays), or resolves when every
\* request was answered with success (the cart is emptied).
CheckoutSettle ==
  /\ client.pc = "waiting"
  /\ \/ \E r \in 1..Len(client.sent) :
          /\ place[r].pc = "done" /\ place[r].res.status # 201
          /\ client' = [client EXCEPT !.pc = "settled",
                                      !.toast = place[r].res.message]
     \/ /\ \A r \in 1..Len(client.sent) :
             place[r].pc = "done" /\ place[r].res.status = 201
        /\ client' = [client EXCEPT !.pc = "settled", !.cart = <<>>,
                                    !.toast = "Orders placed successfully!"]
  /\ UNCHANGED <<materials, orders, reviews, users, place, trans, revs, mats, gets>>

\* The vendor clicks Place Order a second time, after the first checkout has
\* settled: placeOrder runs again on the cart as it is now.  The requests of
\* the second run take the slots after those of the first.
CheckoutAgain ==
  LET groups == ordersBySupplier(client.cart)
  IN /\ client.pc = "settled"
     /\ \A g \in 1..Len(groups) :
          MaxRequests + g \in DOMAIN place /\ place[MaxRequests + g].pc = "idle"
     /\ IF Len(client.cart) = 0
          THEN /\ client' = [client EXCEPT !.toast = "Cart is empty"]
               /\ UNCHANGED place
          ELSE /\ client' = [client EXCEPT !.pc = "waiting again",
                                           !.sent = groups,
                                           !.checkedOut = client.cart]
               /\ place' = [r \in DOMAIN place |->
                    IF r > MaxRequests /\ r - MaxRequests <= Len(groups)
                      THEN Received(client.user,
                             [supplierId |-> groups[r - MaxRequests].supplierId,
                              items |-> groups[r - MaxRequests].items,
                              deliveryAddress |-> "Default delivery address"])
                      ELSE place[r]]
     /\ UNCHANGED <<materials, orders, reviews, users, trans, revs, mats, gets>>

\* Promise.all of the second run settles.
CheckoutAgainSettle ==
  /\ client.pc = "waiting again"
  /\ \/ \E g \in 1..Len(client.sent) :
          /\ place[MaxRequests + g].pc = "done"
          /\ place[MaxRequests + g].res.status # 201
          /\ client' = [client EXCEPT !.pc = "settled again",
                                      !.toast = place[MaxRequests + g].res.message]
     \/ /\ \A g \in 1..Len(client.sent) :
             /\ place[MaxRequests + g].pc = "done"
             /\ place[MaxRequests + g].res.status = 201
        /\ client' = [client EXCEPT !.pc = "settled again", !.cart = <<>>,
                                    !.toast = "Orders placed successfully!"]
  /\ UNCHANGED <<materials, orders, reviews, users, place, trans, revs, mats, gets>>

\* --------------------------------- client: cart buttons of the Materials page
\* On the page with the cart buttons, quantities and stocks are kept in
\* tenths of a unit, so that a stock of 1.5 is the number 15.
One == 10

\* material.stock of a card: the stock in the page's copy of the material.
StockShown(m) ==
  One * client.materials[m].stock + client.materials[m].stockTenths

\* A quantity in tenths as JavaScript prints the number: 2, 1.5, 0.5.
TenthsText(q) ==
  IF q % One = 0 THEN ToString(q \div One)
  ELSE ToString(q \div One) \o "." \o ToString(q % One)

Min(a, b) == IF a <= b THEN a ELSE b
Max(a, b) == IF a >= b THEN a ELSE b

\* GET /api/materials as a page has sent it: the handler is about to read
\* the catalog (pc "find"), about to count it (pc "count"), or has answered
\* (pc "done") with a status and the materials it read.
FetchSent == [pc |-> "find", status |-> 0, materials |-> <<>>]

\* The page as it mounts: loading, no materials, an empty cart, the quantity
\* state of each material's card, useState(1), and fetchMaterials up to its
\* await: the request is sent.  fetch holds the fetchMaterials calls still at
\* their await, oldest first; while the page is loading the last one is its
\* own, the others are those of pages opened before.
CartPage ==
  [pc |-> "loading", user |-> "V1", cart |-> <<>>, sent |-> <<>>,
   toast |-> "", checkedOut |-> <<>>, materials |-> <<>>,
   card |-> [m \in MaterialIds |-> One], fetch |-> <<FetchSent>>]

\* The page is opened again: its state starts afresh and fetchMaterials
\* sends GET /api/materials.  The calls of earlier pages go on, and a
\* message on the screen is not part of the page.
PageMount ==
  /\ Len(client.fetch) < MaxRequests
  /\ client' = [CartPage EXCEPT !.toast = client.toast,
                                !.fetch = Append(client.fetch, FetchSent)]
  /\ UNCHANGED <<materials, orders, reviews, users, place, trans, revs, mats, gets>>

\* GET /api/materials, await Material.find(query): the available materials
\* as they are stored now.
ListFind(k) ==
  /\ k \in 1..Len(client.fetch)
  /\ client.fetch[k].pc = "find"
  /\ client' = [client EXCEPT !.fetch[k].pc = "count",
                              !.fetch[k].materials = Fetched]
  /\ UNCHANGED <<materials, orders, reviews, users, place, trans, revs, mats, gets>>

\* GET /api/materials, await Material.countDocuments(query) and res.json:
\* the materials read at find are the answer.
ListCount(k) ==
  /\ k \in 1..Len(client.fetch)
  /\ client.fetch[k].pc = "count"
  /\ client' = [client EXCEPT !.fetch[k].pc = "done",
                              !.fetch[k].status = 200]
  /\ UNCHANGED <<materials, orders, reviews, users, place, trans, revs, mats, gets>>

\* GET /api/materials, catch: one of the two store calls has thrown and the
\* answer is 500 "Server error fetching materials".
ListFails(k) ==
  /\ k \in 1..Len(client.fetch)
  /\ client.fetch[k].pc \in {"find", "count"}
  /\ client' = [client EXCEPT !.fetch[k] = [pc |-> "done", status |-> 500,
                                            materials |-> <<>>]]
  /\ UNCHANGED <<materials, orders, reviews, users, place, trans, revs, mats, gets>>

\* The calls at their await without call k.
Returned(fetch, k) ==
  [i \in 1..(Len(fetch) - 1) |-> IF i < k THEN fetch[i] ELSE fetch[i + 1]]

\* fetchMaterials after its await, for the call k whose answer has come:
\* setMaterials(response.data.materials), or in the catch the toast
\* "Failed to load materials"; finally setLoading(false).  The set calls of
\* a page opened before change nothing on the page shown now; the toast is
\* shown whichever page the call belongs to.
FetchMaterials(k) ==
  LET own == client.pc = "loading" /\ k = Len(client.fetch)
      ok == client.fetch[k].status = 200
  IN /\ k \in 1..Len(client.fetch)
     /\ client.fetch[k].pc = "done"
     /\ client' = [client EXCEPT
          !.fetch = Returned(@, k),
          !.pc = IF own THEN "browsing" ELSE @,
          !.materials = IF own /\ ok THEN client.fetch[k].materials ELSE @,
          !.toast = IF ok THEN @ ELSE "Failed to load materials"]
     /\ UNCHANGED <<materials, orders, reviews, users, place, trans, revs, mats, gets>>

\* removeFromCart(materialId): the cart afterwards.
removeFromCart(cart, m) == SelectSeq(cart, LAMBDA it : it.materialId # m)

\* updateCartQuantity(materialId, quantity): the cart afterwards.
updateCartQuantity(cart, m, quantity) ==
  IF quantity <= 0
    THEN removeFromCart(cart, m)
    ELSE [k \in 1..Len(cart) |->
            IF cart[k].materialId = m
              THEN [cart[k] EXCEPT !.quantity = quantity]
              ELSE cart[k]]

\* The materials the page has a card for: those it fetched.
Listed(m) == m \in DOMAIN client.materials

\* The card's "-" button: setQuantity(Math.max(1, quantity - 1)).
CardMinus(m) ==
  /\ Listed(m)
  /\ client' = [client EXCEPT !.card[m] = Max(One, @ - One)]
  /\ UNCHANGED <<materials, orders, reviews, users, place, trans, revs, mats, gets>>

\* The card's "+" button: setQuantity(Math.min(material.stock, quantity + 1)).
CardPlus(m) ==
  /\ Listed(m)
  /\ client' = [client EXCEPT !.card[m] = Min(StockShown(m), @ + One)]
  /\ UNCHANGED <<materials, orders, reviews, users, place, trans, revs, mats, gets>>

\* The card's Add to Cart button, disabled when material.stock === 0:
\* onAddToCart(material, quantity).
CardAdd(m) ==
  /\ Listed(m)
  /\ StockShown(m) # 0
  /\ QtyOf(client.cart, m) + client.card[m] <= MaxQty * One
  /\ client' = [client EXCEPT
       !.cart = addToCart(@, m, client.card[m]),
       !.toast = AddedToast(client.materials[m], TenthsText(client.card[m]))]
  /\ UNCHANGED <<materials, orders, reviews, users, place, trans, revs, mats, gets>>

\* The "-" button of cart line k: updateCartQuantity(id, item.quantity - 1).
CartMinus(k) ==
  /\ k \in 1..Len(client.cart)
  /\ client' = [client EXCEPT !.cart =
       updateCartQuantity(@, @[k].materialId, @[k].quantity - One)]
  /\ UNCHANGED <<materials, orders, reviews, users, place, trans, revs, mats, gets>>

\* The "+" button of cart line k: updateCartQuantity(id, item.quantity + 1).
CartPlus(k) ==
  /\ k \in 1..Len(client.cart)
  /\ client.cart[k].quantity + One <= MaxQty * One
  /\ client' = [client EXCEPT !.cart =
       updateCartQuantity(@, @[k].materialId, @[k].quantity + One)]
  /\ UNCHANGED <<materials, orders, reviews, users, place, trans, revs, mats, gets>>

\* The Remove button of cart line k: removeFromCart(item.materialId).
CartRemove(k) ==
  /\ k \in 1..Len(client.cart)
  /\ client' = [client EXCEPT !.cart = removeFromCart(@, @[k].materialId)]
  /\ UNCHANGED <<materials, orders, reviews, users, place, trans, revs, mats, gets>>

\* ----------------------------------------------- client: the Orders page
\* Mutant of getNextStatus: a delivered order is offered a cancellation.
getNextStatusReopen(currentStatus) ==
  CASE currentStatus = "pending"          -> <<"confirmed", "cancelled">>
    [] currentStatus = "confirmed"        -> <<"out_for_delivery", "cancelled">>
    [] currentStatus = "out_for_delivery" -> <<"delivered">>
    [] currentStatus = "delivered"        -> <<"cancelled">>
    [] currentStatus = "cancelled"        -> <<>>
    [] OTHER                              -> <<>>

\* getNextStatus(currentStatus): the transitions the page offers, in the
\* order of the buttons; `transitions[currentStatus] || []`.
getNextStatus(currentStatus) ==
  CASE currentStatus = "pending"          -> <<"confirmed", "cancelled">>
    [] currentStatus = "confirmed"        -> <<"out_for_delivery", "cancelled">>
    [] currentStatus = "out_for_delivery" -> <<"delivered">>
    [] currentStatus = "delivered"        -> <<>>
    [] currentStatus = "cancelled"        -> <<>>
    [] OTHER                              -> <<>>

\* The statuses offered as buttons for an order in status st.
Offered(st) == {getNextStatus(st)[k] : k \in 1..Len(getNextStatus(st))}

\* Supplier Actions: supplier u, looking at its order id as it is stored and
\* with no request of its own pending, clicks the button of nextStatus;
\* updateOrderStatus sends PATCH /api/orders/:id/status {status: nextStatus}.
ClickNextStatus(r, u, id, nextStatus) ==
  /\ role(u) = "supplier"
  /\ HasOrder(id) /\ orders[id].supplierId = u
  /\ InFlight(trans) = {}
  /\ nextStatus \in Offered(orders[id].status)
  /\ TransStart(r, u, id, [status |-> nextStatus, supplierNotes |-> "",
                           estimatedDeliveryTime |-> None])

\* --------------------------------------------------------- specifications
\* Placements against the initial catalog; each slot takes one request.
InitPlace ==
  /\ materials = InitMaterials
  /\ orders = <<>>
  /\ reviews = <<>>
  /\ users = InitUsers
  /\ place = [r \in Slots |-> PlaceIdle]
  /\ trans = [r \in Slots |-> TransIdle]
  /\ revs = [r \in Slots |-> RevIdle]
  /\ mats = [r \in Slots |-> MatIdle]
  /\ gets = [r \in Slots |-> GetIdle]
  /\ client = ClientIdle

NextPlace ==
  \E r \in Slots :
    \/ \E u \in {"V1", "S1"}, b \in PlaceBodies : PlaceStart(r, u, b)
    \/ PlaceFind(r)
    \/ PlaceSaveMaterial(r)
    \/ PlaceSaveOrder(r)
    \/ PlacePopulate(r)

SpecPlace == InitPlace /\ [][NextPlace]_vars


\* An order as a placement of one unit of M1 by vendor v with supplier s
\* stores it, driven to status st by its supplier.
StoredOrder(v, s, st) ==
  [vendorId |-> v, supplierId |-> s,
   items |-> <<[materialId |-> "M1", name |-> "rice", quantity |-> 1,
                unitPrice |-> 20, unit |-> "kg"]>>,
   subtotal |-> 20, deliveryFee |-> deliveryFee,
   totalAmount |-> 20 + deliveryFee, status |-> st,
   deliveryAddress |-> "Default delivery address", supplierNotes |-> "",
   estimatedDeliveryTime |-> None,
   actualDeliveryTime |-> IF st = "delivered" THEN 1 ELSE None,
   paymentStatus |-> "pending"]

\* The catalog after n such orders.
MaterialsAfter(n) == [InitMaterials EXCEPT !["M1"].stock = @ - n]

\* Status requests on one stored order of V1 with S1, in any status; each
\* slot takes one request.
InitStatus ==
  /\ materials = MaterialsAfter(1)
  /\ \E st \in Statuses : orders = <<StoredOrder("V1", "S1", st)>>
  /\ reviews = <<>>
  /\ users = InitUsers
  /\ place = [r \in Slots |-> PlaceIdle]
  /\ trans = [r \in Slots |-> TransIdle]
  /\ revs = [r \in Slots |-> RevIdle]
  /\ mats = [r \in Slots |-> MatIdle]
  /\ gets = [r \in Slots |-> GetIdle]
  /\ client = ClientIdle

NextStatus ==
  \E r \in Slots :
    \/ \E u \in {"S1", "S2", "V1"}, id \in {1, NoOrder}, b \in TransBodies :
         TransStart(r, u, id, b)
    \/ TransFind(r)
    \/ TransSave(r)
    \/ TransPopulate(r)

SpecStatus == InitStatus /\ [][NextStatus]_vars

\* Review submissions with two orders of V1 with S1 stored: the first
\* delivered, the second in any status; each slot takes one request.
InitReview ==
  /\ materials = MaterialsAfter(2)
  /\ \E st \in Statuses :
       orders = <<StoredOrder("V1", "S1", "delivered"), StoredOrder("V1", "S1", st)>>
  /\ reviews = <<>>
  /\ users = InitUsers
  /\ place = [r \in Slots |-> PlaceIdle]
  /\ trans = [r \in Slots |-> TransIdle]
  /\ revs = [r \in Slots |-> RevIdle]
  /\ mats = [r \in Slots |-> MatIdle]
  /\ gets = [r \in Slots |-> GetIdle]
  /\ client = ClientIdle

NextReview ==
  \E r \in Slots :
    \/ \E u \in {"V1", "V2", "S1"}, b \in RevBodies : RevStart(r, u, b)
    \/ RevFindOrder(r)
    \/ RevFindReview(r)
    \/ RevSave(r)
    \/ RevPopulate(r)

SpecReview == InitReview /\ [][NextReview]_vars


\* Placements, catalog changes and status requests side by side, with one
\* pending order of V1 with S1 stored.  V1 orders one unit of M1 or of M3
\* from S1; S1 restocks, reprices and renames M1 or deletes it; S2 lists M3;
\* S1 confirms or cancels order 1.
CatalogCarts ==
  { <<[materialId |-> "M1", quantity |-> 1]>>,
    <<[materialId |-> "M3", quantity |-> 1]>> }

CatalogUpdates ==
  { <<"S1", "M1", StockUpdate(1, 5)>>,
    <<"S1", "M1", StockUpdate(-1, 0)>>,
    <<"S1", "M1", [name |-> "basmati", unitPrice |-> 25]>>,
    <<"S2", "M3", [isAvailable |-> TRUE]>> }

CatalogDeletes == { <<"S1", "M1">>, <<"S2", "M1">> }

\* S1 lists wheat, with a price or without one.
CatalogCreates ==
  { <<"S1", MaterialBody("wheat", 30, 2, 0)>>,
    <<"S1", MaterialBody("wheat", 0, 2, 0)>> }

\* These runs hold one placement and one catalog request.
First == {1}

InitCatalog ==
  /\ materials = MaterialsAfter(1)
  /\ orders = <<StoredOrder("V1", "S1", "pending")>>
  /\ reviews = <<>>
  /\ users = InitUsers
  /\ place = [r \in First |-> PlaceIdle]
  /\ trans = [r \in Slots |-> TransIdle]
  /\ revs = [r \in Slots |-> RevIdle]
  /\ mats = [r \in First |-> MatIdle]
  /\ gets = [r \in Slots |-> GetIdle]
  /\ client = ClientIdle

NextCatalog ==
  \/ \E r \in First :
       \/ \E c \in CatalogCarts :
            PlaceStart(r, "V1", [supplierId |-> "S1", items |-> c,
                                 deliveryAddress |-> "Default delivery address"])
       \/ PlaceFind(r)
       \/ PlaceSaveMaterial(r)
       \/ PlaceSaveOrder(r)
       \/ PlacePopulate(r)
  \/ \E r \in First :
       \/ \E x \in CatalogUpdates : MatUpdateStart(r, x[1], x[2], x[3])
       \/ MatUpdateFind(r)
       \/ MatUpdateSave(r)
       \/ MatUpdatePopulate(r)
       \/ \E x \in CatalogDeletes : MatDeleteStart(r, x[1], x[2])
       \/ MatDelete(r)
       \/ \E x \in CatalogCreates : MatCreateStart(r, x[1], x[2])
       \/ MatCreateSave(r)
       \/ MatCreatePopulate(r)
  \/ \E r \in Slots :
       \/ \E st \in {"confirmed", "cancelled"} :
            TransStart(r, "S1", 1, [status |-> st, supplierNotes |-> "",
                                    estimatedDeliveryTime |-> None])
       \/ TransFind(r)
       \/ TransSave(r)
       \/ TransPopulate(r)

SpecCatalog == InitCatalog /\ [][NextCatalog]_vars

\* Reads of single orders with two orders stored, of V1 and of V2, both with
\* S1; every user asks for every order and for an id of no order.
InitGet ==
  /\ materials = MaterialsAfter(2)
  /\ orders = <<StoredOrder("V1", "S1", "pending"), StoredOrder("V2", "S1", "delivered")>>
  /\ reviews = <<>>
  /\ users = InitUsers
  /\ place = [r \in Slots |-> PlaceIdle]
  /\ trans = [r \in Slots |-> TransIdle]
  /\ revs = [r \in Slots |-> RevIdle]
  /\ mats = [r \in Slots |-> MatIdle]
  /\ gets = [r \in Slots |-> GetIdle]
  /\ client = ClientIdle

NextGet ==
  \E r \in Slots :
    \/ \E u \in Users, id \in {1, 2, NoOrder} : GetStart(r, u, id)
    \/ GetFind(r)

SpecGet == InitGet /\ [][NextGet]_vars

\* The supplier's status requests on its one stored order, one request more
\* than MaxRequests, so that a request can be overtaken by two others.
StatusSlots == 1..(MaxRequests + 1)

InitLifecycle ==
  /\ materials = MaterialsAfter(1)
  /\ \E st \in Statuses : orders = <<StoredOrder("V1", "S1", st)>>
  /\ reviews = <<>>
  /\ users = InitUsers
  /\ place = [r \in Slots |-> PlaceIdle]
  /\ trans = [r \in StatusSlots |-> TransIdle]
  /\ revs = [r \in Slots |-> RevIdle]
  /\ mats = [r \in Slots |-> MatIdle]
  /\ gets = [r \in Slots |-> GetIdle]
  /\ client = ClientIdle

NextLifecycle ==
  \E r \in StatusSlots :
    \/ \E st \in {"out_for_delivery", "delivered", "cancelled"} :
         TransStart(r, "S1", 1, [status |-> st, supplierNotes |-> "",
                                 estimatedDeliveryTime |-> None])
    \/ TransFind(r)
    \/ TransSave(r)
    \/ TransPopulate(r)

SpecLifecycle == InitLifecycle /\ [][NextLifecycle]_vars

\* Status requests that all carry notes and an estimated delivery time, on
\* one stored order of V1 with S1 in any status and on an id of no order.
NotedBodies ==
  [status : Statuses \cup {""},
   supplierNotes : {"on the way"}, estimatedDeliveryTime : {1}]

NextNotes ==
  \E r \in Slots :
    \/ \E u \in {"S1", "S2", "V1"}, id \in {1, NoOrder}, b \in NotedBodies :
         TransStart(r, u, id, b)
    \/ TransFind(r)
    \/ TransSave(r)
    \/ TransPopulate(r)

SpecNotes == InitStatus /\ [][NextNotes]_vars

\* One placement, one status request and one review submission side by side,
\* with one order of V1 with S1 stored, out for delivery or delivered.  Every
\* store call returns or throws: a handler waiting on one eventually goes on.
AnswerCarts ==
  { <<>>,
    <<[materialId |-> "M1", quantity |-> 1]>>,
    <<[materialId |-> "M1", quantity |-> 0]>>,
    <<[materialId |-> "M2", quantity |-> MaxStock]>>,
    <<[materialId |-> "M1", quantity |-> 1], [materialId |-> "M3", quantity |-> 1]>> }

AnswerStatusBodies ==
  [status : {"delivered", "cancelled", ""},
   supplierNotes : {""}, estimatedDeliveryTime : {None}]

AnswerReviewBodies ==
  [orderId : {0, 1, NoOrder}, supplierId : {"S1"}, rating : {5, 6}]

InitAnswer ==
  /\ materials = MaterialsAfter(1)
  /\ \E st \in {"out_for_delivery", "delivered"} :
       orders = <<StoredOrder("V1", "S1", st)>>
  /\ reviews = <<>>
  /\ users = InitUsers
  /\ place = [r \in First |-> PlaceIdle]
  /\ trans = [r \in First |-> TransIdle]
  /\ revs = [r \in First |-> RevIdle]
  /\ mats = [r \in Slots |-> MatIdle]
  /\ gets = [r \in Slots |-> GetIdle]
  /\ client = ClientIdle

NextAnswer ==
  \E r \in First :
    \/ \E u \in {"V1", "S1"}, c \in AnswerCarts :
         PlaceStart(r, u, [supplierId |-> "S1", items |-> c,
                           deliveryAddress |-> "Default delivery address"])
    \/ PlaceFind(r)
    \/ PlaceSaveMaterial(r)
    \/ PlaceSaveOrder(r)
    \/ PlacePopulate(r)
    \/ \E u \in {"S1", "S2", "V1"}, id \in {1, NoOrder}, b \in AnswerStatusBodies :
         TransStart(r, u, id, b)
    \/ TransFind(r)
    \/ TransSave(r)
    \/ TransPopulate(r)
    \/ \E u \in {"V1", "S1"}, b \in AnswerReviewBodies : RevStart(r, u, b)
    \/ RevFindOrder(r)
    \/ RevFindReview(r)
    \/ RevSave(r)
    \/ RevPopulate(r)

FairAnswer ==
  \A r \in First :
    /\ WF_vars(PlaceFind(r)) /\ WF_vars(PlaceSaveMaterial(r))
    /\ WF_vars(PlaceSaveOrder(r)) /\ WF_vars(PlacePopulate(r))
    /\ WF_vars(TransFind(r)) /\ WF_vars(TransSave(r))
    /\ WF_vars(TransPopulate(r))
    /\ WF_vars(RevFindOrder(r)) /\ WF_vars(RevFindReview(r))
    /\ WF_vars(RevSave(r)) /\ WF_vars(RevPopulate(r))

SpecAnswer == InitAnswer /\ [][NextAnswer]_vars /\ FairAnswer

\* Placements by V1 with S1 whose lines ask for one unit of M1, for none, or
\* for a negative quantity (item.quantity is whatever number the body holds).
SignedQuantities == {-1, 0, 1}

SignedCarts ==
  UNION {[1..n -> [materialId : {"M1"}, quantity : SignedQuantities]] :
           n \in 1..MaxCart}

NextQuantity ==
  \E r \in Slots :
    \/ \E c \in SignedCarts :
         PlaceStart(r, "V1", [supplierId |-> "S1", items |-> c,
                              deliveryAddress |-> "Default delivery address"])
    \/ PlaceFind(r)
    \/ PlaceSaveMaterial(r)
    \/ PlaceSaveOrder(r)
    \/ PlacePopulate(r)

SpecQuantity == InitPlace /\ [][NextQuantity]_vars

\* Catalog requests on M1 of S1 and M3 of S2, by the owner and by the other
\* supplier: a new price, a body naming another supplier, and deletes.
OwnershipUpdates ==
  { <<"S1", "M1", [unitPrice |-> 25]>>,
    <<"S1", "M1", [supplierId |-> "S2"]>>,
    <<"S2", "M1", [unitPrice |-> 25]>>,
    <<"S2", "M1", [supplierId |-> "S2"]>>,
    <<"V1", "M1", [unitPrice |-> 25]>> }

OwnershipDeletes == { <<"S2", "M1">>, <<"S2", "M3">>, <<"V1", "M1">> }

\* S2 lists wheat; a vendor tries to.
OwnershipCreates ==
  { <<"S2", MaterialBody("wheat", 30, 2, 0)>>,
    <<"V1", MaterialBody("wheat", 30, 2, 0)>> }

NextOwnership ==
  \E r \in Slots :
    \/ \E x \in OwnershipUpdates : MatUpdateStart(r, x[1], x[2], x[3])
    \/ MatUpdateFind(r)
    \/ MatUpdateSave(r)
    \/ MatUpdatePopulate(r)
    \/ \E x \in OwnershipDeletes : MatDeleteStart(r, x[1], x[2])
    \/ MatDelete(r)
    \/ \E x \in OwnershipCreates : MatCreateStart(r, x[1], x[2])
    \/ MatCreateSave(r)
    \/ MatCreatePopulate(r)

SpecOwnership == InitPlace /\ [][NextOwnership]_vars

\* A vendor fills a cart from the catalog of both suppliers and checks out;
\* M3 of S2 is listed or has been delisted.
InitCheckout ==
  /\ \E av \in BOOLEAN :
       materials = [InitMaterials EXCEPT !["M3"].isAvailable = av]
  /\ orders = <<>>
  /\ reviews = <<>>
  /\ users = InitUsers
  /\ place = [r \in Slots |-> PlaceIdle]
  /\ trans = [r \in Slots |-> TransIdle]
  /\ revs = [r \in Slots |-> RevIdle]
  /\ mats = [r \in Slots |-> MatIdle]
  /\ gets = [r \in Slots |-> GetIdle]
  /\ client = PageLoaded

NextCheckout ==
  \/ \E m \in MaterialIds, quantity \in 1..MaxQty : AddToCart(m, quantity)
  \/ Checkout
  \/ CheckoutSettle
  \/ \E r \in Slots :
       \/ PlaceFind(r)
       \/ PlaceSaveMaterial(r)
       \/ PlaceSaveOrder(r)
       \/ PlacePopulate(r)

SpecCheckout == InitCheckout /\ [][NextCheckout]_vars

\* The vendor fills a cart, checks out, and checks out again once the first
\* checkout has settled; M3 of S2 has been delisted since it was shown.
RetrySlots == 1..(2 * MaxRequests)

InitRetry ==
  /\ materials = InitMaterials
  /\ orders = <<>>
  /\ reviews = <<>>
  /\ users = InitUsers
  /\ place = [r \in RetrySlots |-> PlaceIdle]
  /\ trans = [r \in Slots |-> TransIdle]
  /\ revs = [r \in Slots |-> RevIdle]
  /\ mats = [r \in Slots |-> MatIdle]
  /\ gets = [r \in Slots |-> GetIdle]
  /\ client = PageLoaded

NextRetry ==
  \/ \E m \in MaterialIds, quantity \in {1} : AddToCart(m, quantity)
  \/ Checkout
  \/ CheckoutSettle
  \/ CheckoutAgain
  \/ CheckoutAgainSettle
  \/ \E r \in RetrySlots :
       \/ PlaceFind(r)
       \/ PlaceSaveMaterial(r)
       \/ PlaceSaveOrder(r)
       \/ PlacePopulate(r)

SpecRetry == InitRetry /\ [][NextRetry]_vars

\* Supplier S1 works through its two stored orders, each in any status, from
\* the Orders page.
InitButtons ==
  /\ materials = MaterialsAfter(2)
  /\ \E st1, st2 \in Statuses :
       orders = <<StoredOrder("V1", "S1", st1), StoredOrder("V2", "S1", st2)>>
  /\ reviews = <<>>
  /\ users = InitUsers
  /\ place = [r \in Slots |-> PlaceIdle]
  /\ trans = [r \in StatusSlots |-> TransIdle]
  /\ revs = [r \in Slots |-> RevIdle]
  /\ mats = [r \in Slots |-> MatIdle]
  /\ gets = [r \in Slots |-> GetIdle]
  /\ client = ClientIdle

NextButtons ==
  \E r \in StatusSlots :
    \/ \E id \in {1, 2}, nextStatus \in Statuses :
         ClickNextStatus(r, "S1", id, nextStatus)
    \/ TransFind(r)
    \/ TransSave(r)
    \/ TransPopulate(r)

SpecButtons == InitButtons /\ [][NextButtons]_vars

\* The vendor opens the Materials page, works the card and cart buttons and
\* may open the page again, while supplier S1 may set the stock of M1 to 1.5.
InitCart ==
  /\ materials = InitMaterials
  /\ orders = <<>>
  /\ reviews = <<>>
  /\ users = InitUsers
  /\ place = [r \in Slots |-> PlaceIdle]
  /\ trans = [r \in Slots |-> TransIdle]
  /\ revs = [r \in Slots |-> RevIdle]
  /\ mats = [r \in First |-> MatIdle]
  /\ gets = [r \in Slots |-> GetIdle]
  /\ client = CartPage

NextCart ==
  \/ PageMount
  \/ \E k \in 1..MaxRequests :
       ListFind(k) \/ ListCount(k) \/ ListFails(k) \/ FetchMaterials(k)
  \/ \E m \in MaterialIds : CardMinus(m) \/ CardPlus(m) \/ CardAdd(m)
  \/ \E k \in 1..Cardinality(MaterialIds) :
       CartMinus(k) \/ CartPlus(k) \/ CartRemove(k)
  \/ \E r \in First :
       \/ MatUpdateStart(r, "S1", "M1", StockUpdate(1, 5))
       \/ MatUpdateFind(r)
       \/ MatUpdateSave(r)
       \/ MatUpdatePopulate(r)

SpecCart == InitCart /\ [][NextCart]_vars

\* ------------------------------------------------- properties: placement
StockNow == [m \in DOMAIN materials |-> materials[m].stock]

\* Request r answers in this step.
PlaceAnswers(r) == place[r].pc # "done" /\ place'[r].pc = "done"

\* The store as it was when request r arrived.
StockBefore(r) == IF place[r].pc = "idle" THEN StockNow ELSE place[r].stock0
OrdersBefore(r) == IF place[r].pc = "idle" THEN Len(orders) ELSE place[r].orders0

\* No other request was in flight when r arrived, and none arrived since.
PlaceAlone(r) ==
  place[r].pc = "idle" \/ (place[r].quiet /\ NumStarted = place[r].n0 + 1)

\* Total quantity of material m over all stored orders.
OrderedQty(m) ==
  SeqSum([k \in 1..Len(orders) |-> QtyOf(orders[k].items, m)])

\* C1: a placement that fails, for whatever reason, leaves the stock of
\* every material as it was before the call and stores no order.
C1_FailedPlacementChangesNothing ==
  [][\A r \in Slots :
       (PlaceAnswers(r) /\ place'[r].res.status # 201 /\ PlaceAlone(r))
         => (StockNow' = StockBefore(r) /\ Len(orders') = OrdersBefore(r))]_vars

\* C2: the quantities of a material recorded in the stored orders never add
\* up to more than the stock the material had, however placements interleave.
C2_OrdersNeverExceedStock ==
  \A m \in MaterialIds : OrderedQty(m) <= InitStock(m)

\* C3: whenever no placement is in progress, the stock of each material has
\* dropped by exactly the quantity of it recorded in the stored orders.
C3_StockMatchesOrders ==
  NumInFlight = 0 =>
    \A m \in MaterialIds : InitStock(m) - materials[m].stock = OrderedQty(m)

\* C4: a placement that succeeds with no concurrent activity lowers each
\* material's stock by the total quantity the cart orders of it (by nothing
\* for a material not in the cart) and stores exactly one new order, pending.
C4_SuccessfulPlacementEffect ==
  [][\A r \in Slots :
       (PlaceAnswers(r) /\ place'[r].res.status = 201 /\ PlaceAlone(r))
         => /\ \A m \in MaterialIds :
                 materials'[m].stock = StockBefore(r)[m] - QtyOf(place[r].items, m)
            /\ Len(orders') = OrdersBefore(r) + 1
            /\ SubSeq(orders', 1, Len(orders)) = orders
            /\ orders'[Len(orders')].status = "pending"]_vars

\* A lone placement of two units of M1 and one of M2 has succeeded.
C4_Witness ==
  /\ NumStarted = 1
  /\ \E r \in Slots : place[r].pc = "done" /\ place[r].res.status = 201
  /\ Len(orders) = 1
  /\ QtyOf(orders[1].items, "M1") = 2 /\ QtyOf(orders[1].items, "M2") = 1
  /\ materials["M1"].stock = InitStock("M1") - 2
  /\ materials["M2"].stock = InitStock("M2") - 1
  /\ materials["M3"].stock = InitStock("M3")

\* C5: every stored order has totalAmount = subtotal + deliveryFee, subtotal
\* = the sum of unitPrice * quantity over its items, and deliveryFee = 50.
C5_OrderTotals ==
  \A k \in 1..Len(orders) :
    LET o == orders[k]
    IN /\ o.totalAmount = o.subtotal + o.deliveryFee
       /\ o.subtotal = SeqSum([j \in 1..Len(o.items) |->
                                 o.items[j].unitPrice * o.items[j].quantity])
       /\ o.deliveryFee = 50

\* The order of the worked example is stored: 2 x 20 + 1 x 50 = 90, total 140.
C5_Witness ==
  \E k \in 1..Len(orders) :
    /\ Len(orders[k].items) = 2
    /\ orders[k].subtotal = 90
    /\ orders[k].totalAmount = 140


\* C18: a line whose material is missing or delisted ends the placement with
\* 'Material is not available', a line asking for more than the stock read
\* for it ends it with 'Insufficient stock', and any other line is taken into
\* the order; a placement is answered 201 only when every line of its cart
\* was checked and taken.
C18_PlacementChecksEveryLine ==
  [][\A r \in Slots :
       /\ (place[r].pc = "find" /\ place'[r] # place[r])
            => LET item == place[r].items[place[r].i]
                   id == item.materialId
                   listed == id \in DOMAIN materials /\ materials[id].isAvailable
               IN /\ ~listed
                      => place'[r].res = Response(400, "Material is not available")
                  /\ (listed /\ item.quantity > materials[id].stock)
                      => place'[r].res = Response(400, "Insufficient stock")
                  /\ (listed /\ item.quantity <= materials[id].stock)
                      => /\ place'[r].pc = "saveMaterial"
                         /\ Len(place'[r].orderItems) = place[r].i
       /\ (place'[r].pc # "done" /\ place'[r].orderItems # place[r].orderItems)
            => place[r].pc = "find"
       /\ (place'[r] # place[r] /\ place'[r].res.status = 201)
            => /\ place[r].pc = "populate"
               /\ Len(place[r].orderItems) = Len(place[r].items)
       /\ (place'[r] # place[r] /\ place'[r].pc = "populate")
            => /\ place[r].pc = "saveOrder"
               /\ Len(place[r].orderItems) = Len(place[r].items)]_vars

\* One placement was answered 201 and another was refused for a delisted or
\* missing material.
C18_Witness ==
  /\ \E r \in Slots : place[r].res.status = 201
  /\ \E r \in Slots : place[r].res = Response(400, "Material is not available")
  /\ Len(orders) = 1

\* -------------------------------------------- properties: status machine
\* The legal transition table of the specification, as edges.
LegalEdges ==
  { <<"pending", "confirmed">>, <<"pending", "cancelled">>,
    <<"confirmed", "out_for_delivery">>, <<"confirmed", "cancelled">>,
    <<"out_for_delivery", "delivered">> }

\* Request q is in flight and comes from the supplier of the order it names.
ByOrderSupplier(q) ==
  /\ q.pc \in {"findOne", "save", "populate"}
  /\ role(q.user) = "supplier"
  /\ HasOrder(q.orderId)
  /\ orders[q.orderId].supplierId = q.user

\* C6: a request by the order's supplier is accepted (goes on to write, and
\* only a request that has written is answered 200) exactly when the
\* requested status is a legal next status of the status the order has when
\* the handler evaluates it; from delivered or cancelled none is accepted.
C6_AcceptedIffLegal ==
  [][\A r \in Slots :
       /\ (trans[r].pc = "findOne" /\ trans'[r] # trans[r] /\ ByOrderSupplier(trans[r]))
            => (trans'[r].pc = "save"
                  <=> <<orders[trans[r].orderId].status, trans[r].status>> \in LegalEdges)
       /\ (trans[r].pc = "save" /\ trans'[r] # trans[r])
            => (/\ trans'[r].pc = "populate"
                /\ orders'[trans[r].orderId].status = trans[r].status)
       /\ (trans'[r] # trans[r] /\ trans'[r].res.status = 200)
            => trans[r].pc = "populate"]_vars

\* The order has been driven to delivered, and a further request on it was
\* refused as an illegal transition.
C6_Witness ==
  /\ orders[1].status = "delivered"
  /\ \E r \in Slots : trans[r].res = Response(400, "Cannot transition")
  /\ \E r \in Slots : trans[r].res.status = 200

\* C7: every change of an order's stored status is an edge of the legal
\* transition table, also when requests on the order run concurrently.
C7_StatusChangesAreLegal ==
  [][\A o \in 1..Len(orders) :
       orders'[o].status # orders[o].status
         => <<orders[o].status, orders'[o].status>> \in LegalEdges]_vars

\* C8: a step that changes an order is the write of a request made by the
\* supplier of that order, and a step that answers a status request with
\* success ends such a request; requests of vendors and of other suppliers
\* change nothing and are never answered 200.
C8_OnlyOwningSupplierChangesStatus ==
  [][\A r \in Slots :
       /\ (trans'[r] # trans[r] /\ orders' # orders)
            => (trans[r].pc = "save" /\ ByOrderSupplier(trans[r]))
       /\ (trans'[r] # trans[r] /\ trans'[r].res.status = 200)
            => (trans[r].pc = "populate" /\ ByOrderSupplier(trans[r]))]_vars

\* A vendor's request was answered 403 and the request of a supplier who
\* does not own the order 404, and the order is as it was stored.
C8_Witness ==
  /\ \E r \in Slots : trans[r].res.status = 403
  /\ \E r \in Slots : trans[r].res.status = 404
  /\ orders = <<StoredOrder("V1", "S1", "pending")>>

\* --------------------------------------------------- properties: reviews
\* Request q is in flight for an order that exists, is the submitting
\* vendor's and is delivered.
Eligible(q) ==
  /\ HasOrder(q.orderId)
  /\ orders[q.orderId].vendorId = q.user
  /\ orders[q.orderId].status = "delivered"

\* C9: a submission gets past the order check, stores a review or is
\* answered 201 only if its order exists, is the submitting vendor's and is
\* delivered; every stored review is of such an order.
C9_ReviewOnlyForOwnDeliveredOrder ==
  /\ [](\A k \in 1..Len(reviews) :
          /\ HasOrder(reviews[k].orderId)
          /\ orders[reviews[k].orderId].vendorId = reviews[k].vendorId
          /\ orders[reviews[k].orderId].status = "delivered")
  /\ [][\A r \in Slots :
          (/\ revs'[r] # revs[r]
           /\ \/ reviews' # reviews
              \/ revs'[r].res.status = 201
              \/ revs'[r].pc \in {"findReview", "save", "populate"})
            => Eligible(revs[r])]_vars

\* A review of the delivered order is stored and answered 201, and a
\* submission for an order that is not eligible was refused.
C9_Witness ==
  /\ Len(reviews) = 1
  /\ \E r \in Slots : revs[r].res.status = 201
  /\ \E r \in Slots :
       revs[r].res = Response(400, "Order not found, unauthorized, or not delivered yet")

\* C10: no order ever has two stored reviews, however submissions
\* interleave; and a submission that finds a review of its order is answered
\* 'Review already exists for this order'.
C10_OneReviewPerOrder ==
  /\ [](\A j, k \in 1..Len(reviews) :
          reviews[j].orderId = reviews[k].orderId => j = k)
  /\ [][\A r \in Slots :
          (revs[r].pc = "findReview" /\ revs'[r] # revs[r] /\ FindReview(revs[r].orderId))
            => revs'[r].res = Response(400, "Review already exists for this order")]_vars

\* The order has its one review; a second submission for it was refused
\* because the review exists.
C10_Witness ==
  /\ Len(reviews) = 1
  /\ \E r \in Slots : revs[r].res.status = 201
  /\ \E r \in Slots : revs[r].res = Response(400, "Review already exists for this order")

\* ---------------------------------------------------- properties: rating
\* The stored reviews of supplier s after this step, and their ratings' sum.
ReviewsOf(s) == SelectSeq(reviews', LAMBDA v : v.supplierId = s)
RatingSum(s) == SeqSum([k \in 1..Len(ReviewsOf(s)) |-> ReviewsOf(s)[k].rating])

\* Submission r is answered 201 in this step.
RevSucceeds(r) == revs[r].pc = "populate" /\ revs'[r].res.status = 201

\* C11: when a review submission is answered with success and no other
\* submission is in flight, the supplier's stored totalRatings is the number
\* of stored reviews of that supplier and the stored rating is their mean
\* rounded to one decimal (kept in tenths: 40 is 4.0).
C11_RatingMatchesReviews ==
  [][\A r \in Slots :
       (RevSucceeds(r) /\ InFlight(revs) = {r})
         => LET s == revs[r].supplierId
            IN /\ users'[s].totalRatings = Len(ReviewsOf(s))
               /\ users'[s].rating = RoundedMean10(RatingSum(s), Len(ReviewsOf(s)))]_vars

\* C17: a review submission is not answered with success when the
\* recomputation of the supplier's rating failed in it and the stored count
\* is short of the supplier's stored reviews.
C17_RatingFailureIsReported ==
  [][\A r \in Slots :
       RevSucceeds(r)
         => ~(/\ revs[r].ratingError
              /\ users'[revs[r].supplierId].totalRatings
                   < Len(ReviewsOf(revs[r].supplierId)))]_vars

\* --------------------------------------------------- properties: catalog
\* C12: the stock of every material is an integer >= 0 in every reachable
\* state, however placements, material updates and status transitions
\* interleave.
C12_StockIsNaturalNumber ==
  \A m \in DOMAIN materials :
    materials[m].stock >= 0 /\ materials[m].stockTenths = 0

\* The fields of an order that nothing changes once it is stored.
Frozen(o) ==
  <<o.vendorId, o.supplierId, o.items, o.subtotal, o.deliveryFee,
    o.totalAmount, o.deliveryAddress, o.paymentStatus>>

\* C13: no step removes a stored order or changes its vendor, supplier, item
\* snapshot, subtotal, delivery fee, total, delivery address or payment
\* status, whatever happens to the materials it references; and a step that
\* changes a stored order at all is the write of an accepted status request
\* on that order, which then goes on to its answer.
C13_StoredOrdersAreFrozen ==
  [][/\ Len(orders') >= Len(orders)
     /\ \A k \in 1..Len(orders) :
          /\ Frozen(orders'[k]) = Frozen(orders[k])
          /\ orders'[k] # orders[k]
               => \E r \in DOMAIN trans :
                    /\ trans[r].pc = "save"
                    /\ trans[r].orderId = k
                    /\ trans'[r].pc = "populate"]_vars

\* Order 1 still holds the name and price M1 had when it was ordered, after
\* its supplier cancelled it and after M1 was deleted from the catalog.
C13_Witness ==
  /\ orders[1].items[1].name = "rice" /\ orders[1].items[1].unitPrice = 20
  /\ orders[1].status = "cancelled"
  /\ "M1" \notin DOMAIN materials
  /\ \E r \in DOMAIN mats : mats[r].res = Response(200, "Material deleted successfully")
  /\ \E r \in DOMAIN trans : trans[r].res.status = 200

\* The supplier a material was listed by.
OwnerOf(m) == InitMaterials[m].supplierId

\* C14: every item of a stored order is a material of the supplier the order
\* names.
C14_OrderItemsBelongToSupplier ==
  \A k \in 1..Len(orders) :
    \A j \in 1..Len(orders[k].items) :
      OwnerOf(orders[k].items[j].materialId) = orders[k].supplierId

\* C20: a step of a status request, the write of a cancellation included,
\* leaves every material's stock and availability as they were.
C20_TransitionLeavesCatalogAlone ==
  [][(\E r \in DOMAIN trans : trans'[r] # trans[r]) => materials' = materials]_vars

\* Order 1, one unit of M1, was cancelled by its supplier, and M1 still has
\* the stock the placement left it with.
C20_Witness ==
  /\ orders[1].status = "cancelled"
  /\ \E r \in DOMAIN trans : trans[r].res.status = 200
  /\ NumStarted = Cardinality(Started(trans))
  /\ materials["M1"].stock = InitStock("M1") - 1

C19_DeliveryTimeIffDelivered ==
  \A k \in 1..Len(orders) :
    orders[k].actualDeliveryTime # None <=> orders[k].status = "delivered"

\* ---------------------------------------------------- properties: checkout
\* The lines the checked-out cart holds for supplier s.
LinesOf(s) == GroupItems(client.checkedOut, s)

\* Every line of supplier s can be served from the catalog as it was.
Servable(s) ==
  \A k \in 1..Len(LinesOf(s)) :
    /\ materials[LinesOf(s)[k].materialId].isAvailable
    /\ LinesOf(s)[k].quantity <= InitStock(LinesOf(s)[k].materialId)

\* An order of supplier s for exactly the lines of s is stored, and the stock
\* of each of those materials is lower by the quantity ordered.
Served(s) ==
  /\ \E o \in 1..Len(orders) :
       /\ orders[o].supplierId = s
       /\ [k \in 1..Len(orders[o].items) |->
             [materialId |-> orders[o].items[k].materialId,
              quantity |-> orders[o].items[k].quantity]] = LinesOf(s)
  /\ \A k \in 1..Len(LinesOf(s)) :
       materials[LinesOf(s)[k].materialId].stock
         = InitStock(LinesOf(s)[k].materialId) - LinesOf(s)[k].quantity

\* C16: once every request of a checkout has been answered, each supplier
\* whose lines could be served has its order stored and its stock lowered,
\* whatever became of the other supplier's request; and no step removes a
\* stored order.
C16_SupplierGroupsAreIndependent ==
  /\ []((client.pc # "browsing" /\ InFlight(place) = {})
          => \A s \in Suppliers :
               (Len(LinesOf(s)) > 0 /\ Servable(s)) => Served(s))
  /\ [][SubSeq(orders', 1, Len(orders)) = orders]_vars

\* A cart of both suppliers was checked out: the request to S2 was refused,
\* the page shows that failure, and the order of S1 is stored with its stock
\* lowered.
C16_Witness ==
  /\ client.pc = "settled"
  /\ InFlight(place) = {}
  /\ Len(LinesOf("S1")) > 0 /\ Len(LinesOf("S2")) > 0
  /\ client.toast = "Material is not available"
  /\ Served("S1")
  /\ Len(orders) = 1

\* The places <<g, j>> of the lines of the requests sent at checkout.
SentPlaces ==
  UNION {{<<g, j>> : j \in 1..Len(client.sent[g].items)} :
           g \in 1..Len(client.sent)}

\* C22: at checkout the cart is split into one request per distinct supplier
\* of the cart: every cart line is in exactly one request, the request to its
\* own supplier, with its cart quantity; the requests hold no other line, no
\* two go to the same supplier, and there are as many as the cart has
\* suppliers.
C22_OneRequestPerSupplier ==
  client.pc # "browsing" =>
    LET cart == client.checkedOut
        sent == client.sent
    IN /\ Len(sent) = Cardinality({cart[k].supplierId : k \in 1..Len(cart)})
       /\ \A g, h \in 1..Len(sent) :
            sent[g].supplierId = sent[h].supplierId => g = h
       /\ Cardinality(SentPlaces) = Len(cart)
       /\ \A k \in 1..Len(cart) :
            /\ Cardinality({p \in SentPlaces :
                 sent[p[1]].items[p[2]].materialId = cart[k].materialId}) = 1
            /\ \E p \in SentPlaces :
                 /\ sent[p[1]].supplierId = cart[k].supplierId
                 /\ sent[p[1]].items[p[2]] =
                      [materialId |-> cart[k].materialId,
                       quantity |-> cart[k].quantity]

\* A cart of three materials, two of S1 around one of S2 and one of them twice,
\* was checked out as two requests.
C22_Witness ==
  /\ client.pc = "waiting"
  /\ Len(client.checkedOut) = 3
  /\ client.checkedOut[1].supplierId = "S1"
  /\ client.checkedOut[2].supplierId = "S2"
  /\ client.checkedOut[3].supplierId = "S1"
  /\ \E k \in 1..3 : client.checkedOut[k].quantity = 2
  /\ Len(client.sent) = 2
  /\ Len(client.sent[1].items) = 2

\* ------------------------------------------- properties: rejected requests
\* C21: a status request is rejected on arrival or at its findOne step,
\* before it has written anything, and the step that rejects it leaves every
\* stored order as it was; the only step of a request that changes an order
\* is the save of an accepted one.  So a request rejected at the role gate,
\* for a missing status, for an order not found or not owned, or for an
\* illegal target writes no status, notes, estimated or actual delivery
\* time, whatever notes and estimate it carried.
C21_RejectedTransitionWritesNothing ==
  [][\A r \in DOMAIN trans :
       /\ (trans'[r] # trans[r] /\ trans'[r].res.status \notin {None, 200})
            => (trans[r].pc \in {"idle", "findOne"} /\ orders' = orders)
       /\ (trans'[r] # trans[r] /\ orders' # orders)
            => (trans[r].pc = "save" /\ trans'[r].pc = "populate")
       /\ (trans[r].pc = "populate" /\ trans'[r] # trans[r])
            => trans'[r].res.status = 200]_vars

\* A request with notes and an estimate was rejected as an illegal transition
\* and one was rejected for an order that is not the caller's, and the order
\* has neither notes nor an estimate.
C21_Witness ==
  /\ \E r \in DOMAIN trans : trans[r].res.message = "Cannot transition"
  /\ \E r \in DOMAIN trans :
       trans[r].res.message = "Order not found or unauthorized"
  /\ orders[1].supplierNotes = ""
  /\ orders[1].estimatedDeliveryTime = None
  /\ orders[1].status = "delivered"

\* ----------------------------------------- properties: concurrent reviews
\* The stored reviews of supplier s, and the sum of their ratings.
StoredReviewsOf(s) == SelectSeq(reviews, LAMBDA v : v.supplierId = s)
StoredRatingSum(s) ==
  SeqSum([k \in 1..Len(StoredReviewsOf(s)) |-> StoredReviewsOf(s)[k].rating])

\* C23: once reviews of two different orders are stored and no submission is
\* in flight, in whatever order the steps of the two submissions ran, every
\* reviewed supplier's stored totalRatings is the number of its stored
\* reviews and its stored rating is their mean rounded to one decimal (in
\* tenths).
C23_ConcurrentReviewsAllCounted ==
  (/\ InFlight(revs) = {}
   /\ \E j, k \in 1..Len(reviews) : reviews[j].orderId # reviews[k].orderId)
    => \A s \in Suppliers :
         Len(StoredReviewsOf(s)) > 0
           => /\ users[s].totalRatings = Len(StoredReviewsOf(s))
              /\ users[s].rating =
                   RoundedMean10(StoredRatingSum(s), Len(StoredReviewsOf(s)))

\* C25: every stored review names the supplier of the order it references.
C25_ReviewSupplierIsOrderSupplier ==
  \A k \in 1..Len(reviews) :
    /\ HasOrder(reviews[k].orderId)
    /\ reviews[k].supplierId = orders[reviews[k].orderId].supplierId

\* ------------------------------------------------- properties: responses
\* Request x has been answered.
Answered(x) == x.res # NoResponse

\* C24: every placement, status request and review submission that arrived
\* is eventually answered; a request is finished exactly when it has its
\* response; and a request that has its response takes no further step, so
\* no request is answered twice.
C24_EveryRequestAnsweredOnce ==
  /\ \A r \in First :
       /\ (place[r].pc # "idle") ~> (place[r].pc = "done" /\ Answered(place[r]))
       /\ (trans[r].pc # "idle") ~> (trans[r].pc = "done" /\ Answered(trans[r]))
       /\ (revs[r].pc # "idle") ~> (revs[r].pc = "done" /\ Answered(revs[r]))
  /\ [](\A r \in First :
          /\ Answered(place[r]) <=> place[r].pc = "done"
          /\ Answered(trans[r]) <=> trans[r].pc = "done"
          /\ Answered(revs[r]) <=> revs[r].pc = "done")
  /\ [][\A r \in First :
          /\ Answered(place[r]) => place'[r] = place[r]
          /\ Answered(trans[r]) => trans'[r] = trans[r]
          /\ Answered(revs[r]) => revs'[r] = revs[r]]_vars

\* The three requests ran side by side and each has its answer: the
\* placement failed in order.save(), the status request succeeded and the
\* review was stored.
C24_Witness ==
  /\ place[1].res = Response(500, "Server error placing order")
  /\ trans[1].res.status = 200
  /\ revs[1].res.status = 201
  /\ Len(reviews) = 1

\* ------------------------------------------------ properties: quantities
\* C26: no step of a placement raises the stock of a material, whatever the
\* quantities of its lines and whether it ends in success or failure; and
\* every item of a stored order has a quantity of at least 1.
C26_PlacementNeverRaisesStock ==
  /\ [][\A m \in DOMAIN materials :
          m \in DOMAIN materials' => materials'[m].stock <= materials[m].stock]_vars
  /\ [](\A o \in 1..Len(orders) :
          \A k \in 1..Len(orders[o].items) : orders[o].items[k].quantity >= 1)

\* ------------------------------------------------- properties: ownership
\* C27: no step changes the supplier a stored material belongs to; and a step
\* of an update or delete request whose sender does not own the material it
\* names leaves the catalog as it was.
C27_MaterialOwnerNeverChanges ==
  /\ [][\A m \in DOMAIN materials :
          m \in DOMAIN materials'
            => materials'[m].supplierId = materials[m].supplierId]_vars
  /\ [][\A r \in DOMAIN mats :
          (/\ mats'[r] # mats[r]
           /\ mats[r].pc # "idle"
           /\ ~FindOwnMaterial(mats[r].id, mats[r].user))
            => materials' = materials]_vars

\* -------------------------------------------- properties: repeated checkout
\* C28: the vendor's purchase stores at most one order per supplier group:
\* checking out again after one group's order was placed and another group's
\* was refused stores no second order of the vendor with the supplier whose
\* order was placed.
C28_RepeatCheckoutPlacesNoDuplicate ==
  \A o1, o2 \in 1..Len(orders) :
    (/\ orders[o1].vendorId = orders[o2].vendorId
     /\ orders[o1].supplierId = orders[o2].supplierId) => o1 = o2

\* ------------------------------------------------ properties: Orders page
\* C29: for every status the transitions the Orders page offers are the
\* transitions the server accepts from it; and a request sent by clicking an
\* offered button while the order is as the page shows it is never refused:
\* every answer is 200.
C29_OfferedEqualsAccepted ==
  /\ \A st \in Statuses : Offered(st) = validTransitions(st)
  /\ \A r \in DOMAIN trans :
       trans[r].pc = "done"
         => trans[r].res = Response(200, "Order status updated successfully")

\* Three clicks were answered with success and took order 1 from pending or
\* confirmed to delivered.
C29_Witness ==
  /\ \A r \in DOMAIN trans : trans[r].res.status = 200
  /\ orders[1].status = "delivered"
  /\ orders[2].status \in {"pending", "confirmed"}

\* ------------------------------------------------- properties: the cart
\* C30: whatever buttons the vendor has clicked, the cart holds at most one
\* line per material and every line has a quantity of at least one unit.
C30_CartLinesDistinctAndPositive ==
  /\ \A j, k \in 1..Len(client.cart) :
       client.cart[j].materialId = client.cart[k].materialId => j = k
  /\ \A k \in 1..Len(client.cart) : client.cart[k].quantity >= One

=============================================================================
